---- MODULE Spec2Model ----
(***************************************************************************)
(* autotier: Config::load / Config::verify (src/config.cpp) and the        *)
(* tiering pass launch_crawlers with Tier::crawl, Tier::tier_down and      *)
(* Tier::tier_up (src/crawl.cpp), over an abstract file system.            *)
(*                                                                         *)
(* A tier directory is a number 1..MaxTiers (0 is a path that is no        *)
(* directory); a path is <<dir, key>>, key being the path relative to the  *)
(* tier root.  Each tier directory is the root of its own file system of   *)
(* FsBlocks blocks of BSize bytes.  A file's data is the 64-bit digest     *)
(* class of its bytes: two files have equal data iff verify_copy finds     *)
(* their XXH64 hashes equal.                                               *)
(*                                                                         *)
(* Spec is the program run on such a disk.  CrawlSpec is Tier::crawl alone *)
(* on a directory tree with subdirectories, symlinks and the file names    *)
(* the exclusion pattern is about.                                         *)
(***************************************************************************)
EXTENDS Integers, Sequences, FiniteSets, TLC

\* ---- bounds of the model ------------------------------------------------
MaxTiers == 3      \* tier sections in a configuration file, tier directories
MaxKeys == 2       \* relative keys (files) on disk
MaxPasses == 2     \* runs of the program one after the other
MaxFaults == 1     \* corrupted copies plus failing statvfs calls
FsBlocks == 4      \* f_blocks of every tier's file system
BSize == 2         \* f_bsize of every tier's file system

\* ---- program constants --------------------------------------------------
ERR == -1          \* config.hpp (value of the error sentinel)
DISABLED == -2     \* config.hpp (expires when no EXPIRES line is read)
IntMax == 2147483647

Dirs == 1..MaxTiers
Keys == 1..MaxKeys
Sizes == {1, 4}           \* bytes
Atimes == {1, 2}
NowTime == 1 + CHOOSE a \in Atimes : \A b \in Atimes : b <= a
                          \* time stamp of a freshly written file
NewOwner == <<"process", 0>>    \* uid, gid and mode of a freshly written file
OldOwner(k) == <<"user", k>>    \* those of the file with key k at the start
OldMtime(k) == 0 - k            \* st_mtime of the file with key k at the start

\* ---- strings as sequences of characters ---------------------------------
DigitVal(c) ==
  CASE c = "0" -> 0 [] c = "1" -> 1 [] c = "2" -> 2 [] c = "3" -> 3
    [] c = "4" -> 4 [] c = "5" -> 5 [] c = "6" -> 6 [] c = "7" -> 7
    [] c = "8" -> 8 [] c = "9" -> 9 [] OTHER -> -1

IsDigit(c) == DigitVal(c) >= 0

RECURSIVE SkipSpace(_)
SkipSpace(s) ==
  IF s # <<>> /\ Head(s) = " " THEN SkipSpace(Tail(s)) ELSE s

\* the digits at the front of s, accumulated onto acc; n = -1 once the
\* value leaves the range of int
RECURSIVE Accum(_, _)
Accum(s, acc) ==
  IF s = <<>> \/ ~IsDigit(Head(s)) THEN acc
  ELSE IF acc = -1 \/ acc > (IntMax - DigitVal(Head(s))) \div 10
       THEN Accum(Tail(s), -1)
       ELSE Accum(Tail(s), acc * 10 + DigitVal(Head(s)))

\* std::stoi: leading white space, an optional sign, then digits up to the
\* first other character; invalid_argument without a digit, out_of_range
\* beyond int
Stoi(str) ==
  LET s == SkipSpace(str)
      neg == s # <<>> /\ Head(s) = "-"
      t == IF s # <<>> /\ Head(s) \in {"-", "+"} THEN Tail(s) ELSE s
      n == Accum(t, 0)
  IN IF t = <<>> \/ ~IsDigit(Head(t)) THEN [st |-> "invalid_argument", val |-> 0]
     ELSE IF n = -1 THEN [st |-> "out_of_range", val |-> 0]
     ELSE [st |-> "ok", val |-> IF neg THEN 0 - n ELSE n]

\* ---- configuration file -------------------------------------------------
\* a line after discard_comments: a section header, key=value, or blank
Header(id) == [kind |-> "header", id |-> id, key |-> "", value |-> <<>>]
KV(k, v) == [kind |-> "kv", id |-> "", key |-> k, value |-> v]
Blank == [kind |-> "blank", id |-> "", key |-> "", value |-> <<>>]

\* regex_match(id, "^\s*[Gg]lobal\s*$")
IsGlobalId(id) == id \in {"Global", "global", " Global "}

\* a Tier as Config::load creates it; g is what the two watermarks hold
\* before a MAX_WATERMARK / MIN_WATERMARK line is read
NewTier(id, g) ==
  [id |-> id, dir |-> 0, expires |-> DISABLED,
   max_watermark |-> g, min_watermark |-> g]

\* catch(std::invalid_argument): the value becomes ERR; out_of_range is not
\* caught
Parsed(v) == IF Stoi(v).st = "ok" THEN Stoi(v).val ELSE ERR

SetKey(t, key, value) ==
  CASE key = "DIR" -> [t EXCEPT !.dir = value]
    [] key = "EXPIRES" -> [t EXCEPT !.expires = Parsed(value)]
    [] key = "MAX_WATERMARK" -> [t EXCEPT !.max_watermark = Parsed(value)]
    [] key = "MIN_WATERMARK" -> [t EXCEPT !.min_watermark = Parsed(value)]
    [] OTHER -> t

Throws(ln) ==
  /\ ln.kind = "kv"
  /\ ln.key \in {"EXPIRES", "MAX_WATERMARK", "MIN_WATERMARK"}
  /\ Stoi(ln.value).st = "out_of_range"

\* the read loop of Config::load with load_global inlined (mode "global"
\* while load_global is reading): the tier list, or why the program ended
RECURSIVE LoadLines(_, _, _, _)
LoadLines(lines, ts, mode, g) ==
  IF lines = <<>> THEN [st |-> "eof", tiers |-> ts]
  ELSE
    LET ln == Head(lines)
        rest == Tail(lines)
    IN IF ln.kind = "blank" THEN LoadLines(rest, ts, mode, g)
       ELSE IF mode = "global"
       THEN IF ln.kind = "header"
            THEN LoadLines(rest, Append(ts, NewTier(ln.id, g)), "tier", g)
            ELSE LoadLines(rest, ts, "global", g)
       ELSE IF ln.kind = "header"
       THEN IF IsGlobalId(ln.id)
            THEN LoadLines(rest, ts, "global", g)
            ELSE LoadLines(rest, Append(ts, NewTier(ln.id, g)), "tier", g)
       ELSE IF ts = <<>> THEN [st |-> "no_first_tier", tiers |-> ts]
       ELSE IF Throws(ln) THEN [st |-> "terminate", tiers |-> ts]
       ELSE LoadLines(rest,
                      [ts EXCEPT ![Len(ts)] = SetKey(ts[Len(ts)], ln.key, ln.value)],
                      "tier", g)

IsDirectory(d) == d \in Dirs

\* Config::verify: TRUE when there are errors
Verify(ts) ==
  \/ ts = <<>>
  \/ Len(ts) = 1
  \/ \E i \in 1..Len(ts) :
       \/ ~IsDirectory(ts[i].dir)
       \/ ts[i].expires = ERR
       \/ ts[i].max_watermark = ERR
       \/ ts[i].max_watermark > 100
       \/ ts[i].max_watermark < 0

\* ---- file system -------------------------------------------------------
Paths == Dirs \X Keys
NoPath == <<0, 0>>

NoFile ==
  [kind |-> "none", data |-> <<0, 0>>, size |-> 0, atime |-> 0, mtime |-> 0,
   owner |-> <<>>, target |-> NoPath]
RegFile(d, sz, at, mt, ow) ==
  [kind |-> "file", data |-> d, size |-> sz, atime |-> at, mtime |-> mt,
   owner |-> ow, target |-> NoPath]
Link(target) ==
  [kind |-> "link", data |-> <<0, 0>>, size |-> 0, atime |-> 0, mtime |-> 0,
   owner |-> <<>>, target |-> target]

VARIABLES
  cfgFile,     \* the lines of the configuration file
  disk,        \* Paths -> what is at the path
  policy,      \* Keys -> [priority, pinned_to]: what File's constructor reads
  tiers,       \* highest_tier .. lowest_tier, as a sequence of Tier
  files,       \* tier index -> Tier::files
  pc,          \* where the program is
  tptr,        \* the tier the loops of launch_crawlers are at
  mv,          \* the move in progress: to_here, what verify_copy returned,
               \* and what was at the file's key in every directory before
  faults,      \* corrupted copies and statvfs failures still to come
  pass,        \* number of the run
  pre,         \* the disk when the run started
  mismatch,    \* keys for which "Copy failed!" was logged in this run
  copies,      \* copy_file calls completed in this run
  statFailed,  \* get_fs_usage returned -1 in this run
  tree,        \* a directory tree given to Tier::crawl on its own (CrawlSpec)
  listing,     \* the records Tier::crawl pushed for tree, in the order pushed
  copied       \* key -> copy_file calls completed for the key in this run

vars ==
  <<cfgFile, disk, policy, tiers, files, pc, tptr, mv, faults, pass, pre,
    mismatch, copies, statFailed, tree, listing, copied>>

NoMove == [to_here |-> NoPath, verified |-> FALSE, before |-> <<>>]
NoFiles == [i \in Dirs |-> <<>>]

\* ---- file names and directory trees --------------------------------------
StartsWith(s, prefix) ==
  Len(s) >= Len(prefix) /\ SubSeq(s, 1, Len(prefix)) = prefix
EndsWith(s, suffix) ==
  Len(s) >= Len(suffix) /\ SubSeq(s, Len(s) - Len(suffix) + 1, Len(s)) = suffix

\* regex_match(name, "(^\..*(\.swp)$|^(\.~lock\.).*#$|^(~\$))"): the whole
\* name has to match one of the three alternatives
RegexMatch(name) ==
  \/ /\ StartsWith(name, <<".">>)
     /\ EndsWith(Tail(name), <<".", "s", "w", "p">>)
  \/ /\ StartsWith(name, <<".", "~", "l", "o", "c", "k", ".">>)
     /\ EndsWith(SubSeq(name, 8, Len(name)), <<"#">>)
  \/ name = <<"~", "$">>

\* A directory tree is a table t of inodes: t[i].kind is "file", "dir",
\* "link" or "none"; a directory has entries (name and inode, in the order
\* the directory iterator gives them), a symlink has a target inode (one
\* of kind "none" when it dangles).  The tables here have no symlink cycle.

\* status(p).type(): symlinks are followed
RECURSIVE Status(_, _)
Status(t, i) == IF t[i].kind = "link" THEN Status(t, t[i].target) ELSE t[i].kind

\* the inode the path of inode i resolves to
RECURSIVE Target(_, _)
Target(t, i) == IF t[i].kind = "link" THEN Target(t, t[i].target) ELSE i

\* is_directory(*itr): by status(), so true of a symlink to a directory
IsDir(t, i) == Status(t, i) = "dir"

\* is_symlink(*itr): by symlink_status()
IsSymlink(t, i) == t[i].kind = "link"

\* the loop of Tier::crawl(dir) over the entries es of the directory at
\* path: the records pushed, as path and inode of the entry
RECURSIVE CrawlEntries(_, _, _)
CrawlEntries(t, path, es) ==
  IF es = <<>> THEN <<>>
  ELSE LET e == Head(es)
           p == Append(path, e.name)
       IN (IF IsDir(t, e.ino)
           THEN CrawlEntries(t, p, t[Target(t, e.ino)].entries)
           ELSE IF ~IsSymlink(t, e.ino) /\ ~RegexMatch(e.name)
           THEN <<[path |-> p, ino |-> e.ino]>>
           ELSE <<>>)
          \o CrawlEntries(t, path, Tail(es))

CrawlDir(t, dir) == CrawlEntries(t, <<>>, t[dir].entries)

\* the name of the file with relative key k
Letters == <<"a", "b", "c", "d">>
FileName(k) == <<Letters[k]>>

\* ---- File ---------------------------------------------------------------
\* File{path}: the record Tier::crawl makes of a file
\* last_times(file): st_atime and st_mtime
LastTimes(p) == [actime |-> disk[p].atime, modtime |-> disk[p].mtime]

MkFile(p) ==
  [path |-> p, priority |-> policy[p[2]].priority, times |-> LastTimes(p),
   pinned_to |-> policy[p[2]].pinned_to]

\* the comparison Tier::crawl sorts with
Before(a, b) ==
  IF a.priority = b.priority THEN a.times.actime > b.times.actime
  ELSE a.priority > b.priority

\* std::list::sort is stable: x goes behind every element it is not before
RECURSIVE InsertSorted(_, _)
InsertSorted(s, x) ==
  IF s = <<>> THEN <<x>>
  ELSE IF Before(x, Head(s)) THEN <<x>> \o s
  ELSE <<Head(s)>> \o InsertSorted(Tail(s), x)

RECURSIVE SortFiles(_)
SortFiles(s) ==
  IF s = <<>> THEN <<>>
  ELSE InsertSorted(SortFiles(SubSeq(s, 1, Len(s) - 1)), s[Len(s)])

\* the entries of tier directory d from key k on, in directory order
RECURSIVE DirEntries(_, _)
DirEntries(d, k) ==
  IF k > MaxKeys THEN <<>>
  ELSE IF disk[<<d, k>>].kind # "none"
       THEN <<[name |-> FileName(k), ino |-> <<d, k>>]>> \o DirEntries(d, k + 1)
       ELSE DirEntries(d, k + 1)

\* the disk as a table of inodes: path <<d, k>> is the inode of the entry
\* at key k of tier directory d, <<d, 0>> the inode of the directory itself
DiskTable ==
  [i \in (Dirs \cup {0}) \X (Keys \cup {0}) |->
     IF i[1] \in Dirs /\ i[2] = 0
     THEN [kind |-> "dir", entries |-> DirEntries(i[1], 1), target |-> NoPath]
     ELSE IF i \in Paths
     THEN [kind |-> disk[i].kind, entries |-> <<>>, target |-> disk[i].target]
     ELSE [kind |-> "none", entries |-> <<>>, target |-> NoPath]]

\* Tier::crawl(dir) for tier directory d: the records pushed, sorted
CrawlTier(d) ==
  LET r == CrawlDir(DiskTable, <<d, 0>>)
  IN SortFiles([j \in 1..Len(r) |-> MkFile(r[j].ino)])

\* the insertion of tier_down and tier_up: before the first record whose
\* priority is not greater
RECURSIVE InsertByPriority(_, _)
InsertByPriority(s, f) ==
  IF s # <<>> /\ Head(s).priority > f.priority
  THEN <<Head(s)>> \o InsertByPriority(Tail(s), f)
  ELSE <<f>> \o s

PopBack(s) == SubSeq(s, 1, Len(s) - 1)
PopFront(s) == Tail(s)
Back(s) == s[Len(s)]
Front(s) == s[1]

\* ---- get_fs_usage -------------------------------------------------------
Blocks(sz) == (sz + BSize - 1) \div BSize

RECURSIVE UsedFrom(_, _)
UsedFrom(d, k) ==
  IF k > MaxKeys THEN 0
  ELSE (IF disk[<<d, k>>].kind = "file" THEN Blocks(disk[<<d, k>>].size) ELSE 0)
       + UsedFrom(d, k + 1)

\* f_blocks - f_bfree of the file system of directory d
UsedBlocks(d) == UsedFrom(d, 1)

\* get_fs_usage(dir, file): fail is statvfs returning -1; sz is the st_size
\* of file, 0 without file (the subtraction from the unsigned f_bfree and
\* the one from f_blocks wrap to the same sum)
GetFsUsage(d, sz, fail) ==
  IF fail THEN -1
  ELSE ((UsedBlocks(d) + sz \div BSize) * 100) \div FsBlocks

\* ---- verify_copy --------------------------------------------------------
\* the digest of what open/read give for a path
XXHash64(p) == IF disk[p].kind = "file" THEN disk[p].data ELSE <<0, 0>>

\* verify_copy that compares nothing
VerifyCopy_Unchecked(src, dst) == TRUE

VerifyCopy(src, dst) == XXHash64(src) = XXHash64(dst)

\* what a copy that an outside writer disturbed holds: other data
Corrupted(d) == <<d[1], d[2] + 1>>

\* ---- Config::load -------------------------------------------------------
\* values an int never assigned may hold
Garbage == {ERR, 50, 150}

Loaded(g) == LoadLines(cfgFile, <<>>, "tier", g)

\* Config::load ends the program: NO_FIRST_TIER, an exception that is not
\* caught, or verify() reporting errors
LoadRejected ==
  /\ pc = "start"
  /\ \E g \in Garbage : Loaded(g).st # "eof" \/ Verify(Loaded(g).tiers)
  /\ pc' = "exit"
  /\ UNCHANGED <<tree, listing, copied, cfgFile, disk, policy, tiers, files,
                 tptr, mv, faults, pass, pre, mismatch, copies, statFailed>>

LoadAccepted ==
  /\ pc = "start"
  /\ \E g \in Garbage :
       /\ Loaded(g).st = "eof"
       /\ ~Verify(Loaded(g).tiers)
       /\ tiers' = Loaded(g).tiers
  /\ pc' = "crawl"
  /\ UNCHANGED <<tree, listing, copied, cfgFile, disk, policy, files, tptr,
                 mv, faults, pass, pre, mismatch, copies, statFailed>>

\* ---- launch_crawlers ----------------------------------------------------
NTiers == Len(tiers)
Dir(i) == tiers[i].dir

\* lines 42-44: every tier crawls its directory
Crawl ==
  /\ pc = "crawl"
  /\ files' = [i \in Dirs |-> IF i <= NTiers THEN CrawlTier(Dir(i)) ELSE <<>>]
  /\ tptr' = 1
  /\ pc' = "down"
  /\ UNCHANGED <<tree, listing, copied, cfgFile, disk, policy, tiers, mv,
                 faults, pass, pre, mismatch, copies, statFailed>>

\* statvfs may fail while faults are left; it is called only when the list
\* is not empty (the && of lines 50 and 60)
StatFail == IF faults > 0 /\ files[tptr] # <<>> THEN BOOLEAN ELSE {FALSE}

Pinned(f, i) == ~(f.pinned_to = 0 \/ f.pinned_to # Dir(i))

\* the condition of the while loop of line 50
DownCond(fail) ==
  /\ files[tptr] # <<>>
  /\ GetFsUsage(Dir(tptr), 0, fail) >= tiers[tptr].max_watermark

\* the condition of the while loop of line 60
UpCond(fail) ==
  /\ files[tptr] # <<>>
  /\ GetFsUsage(Dir(tptr - 1), disk[Front(files[tptr]).path].size, fail)
       < tiers[tptr - 1].min_watermark

Failed(fail) ==
  /\ statFailed' = (statFailed \/ fail)
  /\ faults' = IF fail THEN faults - 1 ELSE faults

\* line 50 false: on to the next tier, and after the last one with a lower
\* tier to the tier-up loop, which starts at lowest_tier
DownNext ==
  /\ pc = "down"
  /\ \E fail \in StatFail :
       /\ ~DownCond(fail)
       /\ Failed(fail)
  /\ IF tptr + 1 < NTiers
     THEN tptr' = tptr + 1 /\ pc' = "down"
     ELSE tptr' = NTiers /\ pc' = "up"
  /\ UNCHANGED <<tree, listing, copied, cfgFile, disk, policy, tiers, files,
                 mv, pass, pre, mismatch, copies>>

\* line 54
DownSkipPinned ==
  /\ pc = "down"
  /\ \E fail \in StatFail :
       /\ DownCond(fail)
       /\ Failed(fail)
  /\ Pinned(Back(files[tptr]), tptr)
  /\ files' = [files EXCEPT ![tptr] = PopBack(@)]
  /\ UNCHANGED <<tree, listing, copied, cfgFile, disk, policy, tiers, pc,
                 tptr, mv, pass, pre, mismatch, copies>>

\* path relative to the directory of tier i, under directory d
Rebased(p, d) == <<d, p[2]>>

\* what is at key k in each directory
Column(k) == [d \in Dirs |-> disk[<<d, k>>]]

\* line 52 and line 91: tier_down is entered and computes to_here
DownBegin ==
  /\ pc = "down"
  /\ \E fail \in StatFail :
       /\ DownCond(fail)
       /\ Failed(fail)
  /\ ~Pinned(Back(files[tptr]), tptr)
  /\ mv' = [to_here |-> Rebased(Back(files[tptr]).path, Dir(tptr + 1)),
            verified |-> FALSE,
            before |-> Column(Back(files[tptr]).path[2])]
  /\ pc' = "d_copy"
  /\ UNCHANGED <<tree, listing, copied, cfgFile, disk, policy, tiers, files,
                 tptr, pass, pre, mismatch, copies>>

\* ---- the steps shared by tier_down and tier_up --------------------------
\* boost copy_file(from, to) with fail_if_exists throws when from is no
\* file or something is at to
CopyThrows(from, to) == disk[from].kind # "file" \/ disk[to].kind # "none"

\* the disk after copy_file; with bad the bytes written are not the bytes
\* verify_copy will read from the source
CopyFile(from, to, bad) ==
  [disk EXCEPT ![to] =
     RegFile(IF bad THEN Corrupted(disk[from].data) ELSE disk[from].data,
             disk[from].size, NowTime, NowTime, NewOwner)]

\* copy_ownership_and_perms: stat src, chown and chmod dst
CopyOwnershipAndPerms(src, dst) ==
  IF disk[dst].kind = "file" /\ disk[src].kind = "file"
  THEN [disk EXCEPT ![dst].owner = disk[src].owner]
  ELSE disk

Remove(p) == [disk EXCEPT ![p] = NoFile]

\* create_symlink(to, new_symlink)
CreateSymlink(to, at) == [disk EXCEPT ![at] = Link(to)]

\* utime that sets nothing
Utime_Skipped(p, t) == disk

\* utime(path, times)
Utime(p, t) ==
  IF disk[p].kind = "file"
  THEN [disk EXCEPT ![p].atime = t.actime, ![p].mtime = t.modtime]
  ELSE disk

BadCopy == IF faults > 0 THEN BOOLEAN ELSE {FALSE}

\* ---- Tier::tier_down ----------------------------------------------------
DownFile == Back(files[tptr])

\* line 95 throws: the exception is caught nowhere and ends the program
DownCopyThrows ==
  /\ pc = "d_copy"
  /\ CopyThrows(DownFile.path, mv.to_here)
  /\ pc' = "aborted"
  /\ UNCHANGED <<tree, listing, copied, cfgFile, disk, policy, tiers, files,
                 tptr, mv, faults, pass, pre, mismatch, copies, statFailed>>

\* line 95
DownCopy ==
  /\ pc = "d_copy"
  /\ ~CopyThrows(DownFile.path, mv.to_here)
  /\ \E bad \in BadCopy :
       /\ disk' = CopyFile(DownFile.path, mv.to_here, bad)
       /\ faults' = IF bad THEN faults - 1 ELSE faults
  /\ copies' = copies + 1
  /\ copied' = [copied EXCEPT ![DownFile.path[2]] = @ + 1]
  /\ pc' = "d_perms"
  /\ UNCHANGED <<tree, listing, cfgFile, policy, tiers, files, tptr, mv, pass,
                 pre, mismatch, statFailed>>

\* line 96
DownPerms ==
  /\ pc = "d_perms"
  /\ disk' = CopyOwnershipAndPerms(DownFile.path, mv.to_here)
  /\ pc' = "d_verify"
  /\ UNCHANGED <<tree, listing, copied, cfgFile, policy, tiers, files, tptr,
                 mv, faults, pass, pre, mismatch, copies, statFailed>>

\* tier_down that removes the source whatever verify_copy returned
DownVerify_RemoveAnyway ==
  /\ pc = "d_verify"
  /\ mv' = [mv EXCEPT !.verified = VerifyCopy(Back(files[tptr]).path, mv.to_here)]
  /\ mismatch' = IF mv'.verified THEN mismatch
                 ELSE mismatch \cup {Back(files[tptr]).path[2]}
  /\ pc' = "d_remove"
  /\ UNCHANGED <<tree, listing, copied, cfgFile, disk, policy, tiers, files,
                 tptr, faults, pass, pre, copies, statFailed>>

\* line 97, and line 102 when the hashes differ
DownVerify ==
  /\ pc = "d_verify"
  /\ mv' = [mv EXCEPT !.verified = VerifyCopy(DownFile.path, mv.to_here)]
  /\ mismatch' = IF mv'.verified THEN mismatch
                 ELSE mismatch \cup {DownFile.path[2]}
  /\ pc' = IF mv'.verified THEN "d_remove" ELSE "d_utime"
  /\ UNCHANGED <<tree, listing, copied, cfgFile, disk, policy, tiers, files,
                 tptr, faults, pass, pre, copies, statFailed>>

\* line 99
DownRemove ==
  /\ pc = "d_remove"
  /\ disk' = Remove(DownFile.path)
  /\ pc' = "d_symlink"
  /\ UNCHANGED <<tree, listing, copied, cfgFile, policy, tiers, files, tptr,
                 mv, faults, pass, pre, mismatch, copies, statFailed>>

\* line 100
DownSymlink ==
  /\ pc = "d_symlink"
  /\ disk' = CreateSymlink(mv.to_here, DownFile.path)
  /\ pc' = "d_utime"
  /\ UNCHANGED <<tree, listing, copied, cfgFile, policy, tiers, files, tptr,
                 mv, faults, pass, pre, mismatch, copies, statFailed>>

\* line 104
DownUtime ==
  /\ pc = "d_utime"
  /\ disk' = Utime(mv.to_here, DownFile.times)
  /\ pc' = "d_relist"
  /\ UNCHANGED <<tree, listing, copied, cfgFile, policy, tiers, files, tptr,
                 mv, faults, pass, pre, mismatch, copies, statFailed>>

\* lines 105-110: the record, its path now to_here, goes into the lower
\* tier's list and leaves this one
DownRelist ==
  /\ pc = "d_relist"
  /\ files' = [files EXCEPT
                 ![tptr + 1] = InsertByPriority(@, [DownFile EXCEPT !.path = mv.to_here]),
                 ![tptr] = PopBack(@)]
  /\ mv' = NoMove
  /\ pc' = "down"
  /\ UNCHANGED <<tree, listing, copied, cfgFile, disk, policy, tiers, tptr,
                 faults, pass, pre, mismatch, copies, statFailed>>

\* ---- the tier-up loop ---------------------------------------------------
\* line 60 false: on to the next higher tier; the loop ends at highest_tier
UpNext ==
  /\ pc = "up"
  /\ \E fail \in StatFail :
       /\ ~UpCond(fail)
       /\ Failed(fail)
  /\ IF tptr - 1 > 1
     THEN tptr' = tptr - 1 /\ pc' = "up"
     ELSE tptr' = tptr /\ pc' = "done"
  /\ UNCHANGED <<tree, listing, copied, cfgFile, disk, policy, tiers, files,
                 mv, pass, pre, mismatch, copies>>

\* line 64
UpSkipPinned ==
  /\ pc = "up"
  /\ \E fail \in StatFail :
       /\ UpCond(fail)
       /\ Failed(fail)
  /\ Pinned(Front(files[tptr]), tptr)
  /\ files' = [files EXCEPT ![tptr] = PopFront(@)]
  /\ UNCHANGED <<tree, listing, copied, cfgFile, disk, policy, tiers, pc,
                 tptr, mv, pass, pre, mismatch, copies>>

\* line 62 and lines 115-116: tier_up is entered and computes to_here
UpBegin ==
  /\ pc = "up"
  /\ \E fail \in StatFail :
       /\ UpCond(fail)
       /\ Failed(fail)
  /\ ~Pinned(Front(files[tptr]), tptr)
  /\ mv' = [to_here |-> Rebased(Front(files[tptr]).path, Dir(tptr - 1)),
            verified |-> FALSE,
            before |-> Column(Front(files[tptr]).path[2])]
  /\ pc' = IF disk[mv'.to_here].kind = "link" THEN "u_shim" ELSE "u_copy"
  /\ UNCHANGED <<tree, listing, copied, cfgFile, disk, policy, tiers, files,
                 tptr, pass, pre, mismatch, copies>>

\* ---- Tier::tier_up ------------------------------------------------------
UpFile == Front(files[tptr])

\* line 117
UpRemoveShim ==
  /\ pc = "u_shim"
  /\ disk' = Remove(mv.to_here)
  /\ pc' = "u_copy"
  /\ UNCHANGED <<tree, listing, copied, cfgFile, policy, tiers, files, tptr,
                 mv, faults, pass, pre, mismatch, copies, statFailed>>

\* line 120 throws
UpCopyThrows ==
  /\ pc = "u_copy"
  /\ CopyThrows(UpFile.path, mv.to_here)
  /\ pc' = "aborted"
  /\ UNCHANGED <<tree, listing, copied, cfgFile, disk, policy, tiers, files,
                 tptr, mv, faults, pass, pre, mismatch, copies, statFailed>>

\* line 120
UpCopy ==
  /\ pc = "u_copy"
  /\ ~CopyThrows(UpFile.path, mv.to_here)
  /\ \E bad \in BadCopy :
       /\ disk' = CopyFile(UpFile.path, mv.to_here, bad)
       /\ faults' = IF bad THEN faults - 1 ELSE faults
  /\ copies' = copies + 1
  /\ copied' = [copied EXCEPT ![UpFile.path[2]] = @ + 1]
  /\ pc' = "u_perms"
  /\ UNCHANGED <<tree, listing, cfgFile, policy, tiers, files, tptr, mv, pass,
                 pre, mismatch, statFailed>>

\* line 121
UpPerms ==
  /\ pc = "u_perms"
  /\ disk' = CopyOwnershipAndPerms(UpFile.path, mv.to_here)
  /\ pc' = "u_verify"
  /\ UNCHANGED <<tree, listing, copied, cfgFile, policy, tiers, files, tptr,
                 mv, faults, pass, pre, mismatch, copies, statFailed>>

\* line 122, and line 126 when the hashes differ
UpVerify ==
  /\ pc = "u_verify"
  /\ mv' = [mv EXCEPT !.verified = VerifyCopy(UpFile.path, mv.to_here)]
  /\ mismatch' = IF mv'.verified THEN mismatch
                 ELSE mismatch \cup {UpFile.path[2]}
  /\ pc' = IF mv'.verified THEN "u_remove" ELSE "u_utime"
  /\ UNCHANGED <<tree, listing, copied, cfgFile, disk, policy, tiers, files,
                 tptr, faults, pass, pre, copies, statFailed>>

\* line 124
UpRemove ==
  /\ pc = "u_remove"
  /\ disk' = Remove(UpFile.path)
  /\ pc' = "u_utime"
  /\ UNCHANGED <<tree, listing, copied, cfgFile, policy, tiers, files, tptr,
                 mv, faults, pass, pre, mismatch, copies, statFailed>>

\* line 128
UpUtime ==
  /\ pc = "u_utime"
  /\ disk' = Utime(mv.to_here, UpFile.times)
  /\ pc' = "u_relist"
  /\ UNCHANGED <<tree, listing, copied, cfgFile, policy, tiers, files, tptr,
                 mv, faults, pass, pre, mismatch, copies, statFailed>>

\* lines 129-134
UpRelist ==
  /\ pc = "u_relist"
  /\ files' = [files EXCEPT
                 ![tptr - 1] = InsertByPriority(@, [UpFile EXCEPT !.path = mv.to_here]),
                 ![tptr] = PopFront(@)]
  /\ mv' = NoMove
  /\ pc' = "up"
  /\ UNCHANGED <<tree, listing, copied, cfgFile, disk, policy, tiers, tptr,
                 faults, pass, pre, mismatch, copies, statFailed>>

\* ---- the program is run again -------------------------------------------
\* a new process: nothing but the disk is kept
NextPass ==
  /\ pc \in {"done", "aborted"}
  /\ pass < MaxPasses
  /\ pass' = pass + 1
  /\ pc' = "start"
  /\ tiers' = <<>>
  /\ files' = NoFiles
  /\ tptr' = 0
  /\ mv' = NoMove
  /\ pre' = disk
  /\ mismatch' = {}
  /\ copies' = 0
  /\ copied' = [k \in Keys |-> 0]
  /\ statFailed' = FALSE
  /\ UNCHANGED <<tree, listing, cfgFile, disk, policy, faults>>

\* ---- the configuration files and disks the runs start from --------------
RECURSIVE TierSections(_, _, _, _)
\* sections [Tier i] .. [Tier n]; tier i has DIR=i, the given watermarks
TierSections(i, n, maxv, minv) ==
  IF i > n THEN <<>>
  ELSE <<Header("Tier"), KV("DIR", i), KV("MAX_WATERMARK", maxv),
         KV("MIN_WATERMARK", minv), Blank>>
       \o TierSections(i + 1, n, maxv, minv)

GlobalSection == <<Header("Global"), KV("LOG_LEVEL", <<"1">>), Blank>>

ConfigOf(n, maxv, minv) == GlobalSection \o TierSections(1, n, maxv, minv)

\* MAX_WATERMARK, MIN_WATERMARK of the configurations the passes run with
Watermarks ==
  { <<(<<"7", "5">>), (<<"5", "0">>)>>,
    <<(<<"5", "0">>), (<<"5", "0">>)>>,
    <<(<<"5", "0">>), (<<"1", "5", "0">>)>> }

PassConfigs ==
  { ConfigOf(n, w[1], w[2]) : n \in 2..MaxTiers, w \in Watermarks }

\* configurations with something wrong or unusual about them
OddConfigs ==
  { ConfigOf(0, <<"5", "0">>, <<"5", "0">>),
    ConfigOf(1, <<"5", "0">>, <<"5", "0">>),
    TierSections(1, 2, <<"5", "0">>, <<"5", "0">>),
    ConfigOf(2, <<>>, <<"5", "0">>),
    ConfigOf(2, <<"a", "b", "c">>, <<"5", "0">>),
    ConfigOf(2, <<"1", "0", "1">>, <<"5", "0">>),
    ConfigOf(2, <<"-", "1">>, <<"5", "0">>),
    ConfigOf(2, <<" ", "+", "8", "0", "%">>, <<"-", "5">>),
    ConfigOf(2, <<"5", "0">>, <<>>),
    ConfigOf(2, <<"5", "0">>, <<"a", "b", "c">>),
    ConfigOf(2, <<"9", "9", "9", "9", "9", "9", "9", "9", "9", "9">>, <<"5", "0">>),
    ConfigOf(2, <<"5", "0">>, <<"5", "0">>) \o <<KV("EXPIRES", <<"x">>)>>,
    ConfigOf(2, <<"5", "0">>, <<"5", "0">>) \o <<KV("EXPIRES", <<"6", "0">>)>>,
    ConfigOf(2, <<"5", "0">>, <<"5", "0">>) \o <<KV("DIR", 0)>>,
    <<KV("DIR", 1)>> \o ConfigOf(2, <<"5", "0">>, <<"5", "0">>),
    GlobalSection \o <<Header("Tier"), KV("DIR", 1), Header("Tier"), KV("DIR", 2)>>,
    ConfigOf(2, <<"5", "0">>, <<"5", "0">>) \o GlobalSection }

\* number of tier sections of a configuration file
RECURSIVE Sections(_)
Sections(lines) ==
  IF lines = <<>> THEN 0
  ELSE (IF Head(lines).kind = "header" /\ ~IsGlobalId(Head(lines).id) THEN 1 ELSE 0)
       + Sections(Tail(lines))

\* priority and access time of a file: equal priorities with different
\* access times, and different priorities
Ranks == {<<1, 1>>, <<1, 2>>, <<2, 1>>}

\* a file in tier directory pl[k] at the start, below the chain of symlinks
\* that tier_down leaves in the directories above it
StartDisk(pl, sz, rk) ==
  [p \in Paths |->
     IF pl[p[2]] = p[1]
     THEN RegFile(<<p[2], 0>>, sz[p[2]], rk[p[2]][2], OldMtime(p[2]),
                  OldOwner(p[2]))
     ELSE IF p[1] < pl[p[2]]
     THEN Link(<<p[1] + 1, p[2]>>)
     ELSE NoFile]

Init ==
  /\ cfgFile \in PassConfigs \cup OddConfigs
  /\ \E pl \in [Keys -> 1..(IF Sections(cfgFile) < 2 THEN 1 ELSE Sections(cfgFile))],
        sz \in [Keys -> Sizes],
        rk \in [Keys -> Ranks],
        pin \in [Keys -> BOOLEAN] :
       /\ \A k \in Keys : pin[k] => k = 1
       /\ cfgFile \in OddConfigs =>
            /\ \A k \in Keys : pl[k] = 1 /\ ~pin[k] /\ rk[k] = <<1, 1>>
            /\ \A k \in Keys : sz[k] = 4
       /\ disk = StartDisk(pl, sz, rk)
       /\ policy = [k \in Keys |->
                      [priority |-> rk[k][1],
                       pinned_to |-> IF pin[k] THEN pl[k] ELSE 0]]
  /\ pc = "start"
  /\ tiers = <<>>
  /\ files = NoFiles
  /\ tptr = 0
  /\ mv = NoMove
  /\ faults = MaxFaults
  /\ pass = 1
  /\ pre = disk
  /\ mismatch = {}
  /\ copies = 0
  /\ statFailed = FALSE
  /\ tree = <<>>
  /\ listing = <<>>
  /\ copied = [k \in Keys |-> 0]

Next ==
  \/ LoadRejected
  \/ LoadAccepted
  \/ Crawl
  \/ DownNext
  \/ DownSkipPinned
  \/ DownBegin
  \/ DownCopyThrows
  \/ DownCopy
  \/ DownPerms
  \/ DownVerify
  \/ DownRemove
  \/ DownSymlink
  \/ DownUtime
  \/ DownRelist
  \/ UpNext
  \/ UpSkipPinned
  \/ UpBegin
  \/ UpRemoveShim
  \/ UpCopyThrows
  \/ UpCopy
  \/ UpPerms
  \/ UpVerify
  \/ UpRemove
  \/ UpUtime
  \/ UpRelist
  \/ NextPass

Spec == Init /\ [][Next]_vars

\* ---- what the claims speak of -------------------------------------------
TierDirs == {Dir(i) : i \in 1..NTiers}

\* the paths under tier roots that hold a regular file with data d
Holders(d) ==
  {q \in Paths : q[1] \in TierDirs /\ disk[q].kind = "file" /\ disk[q].data = d}

\* C1: when a pass has completed, every regular file that was under a tier
\* root before the pass and for which the pass reported no verification
\* mismatch has its content as a regular file in exactly one tier root.
C1_ContentInExactlyOneTier ==
  pc = "done" =>
    \A p \in Paths :
      (p[1] \in TierDirs /\ pre[p].kind = "file" /\ p[2] \notin mismatch)
        => Cardinality(Holders(pre[p].data)) = 1

\* a pass completed in which a file left its place, verified, and another
\* file's copy failed verification
C1_Witness ==
  /\ pc = "done"
  /\ mismatch # {}
  /\ \E p \in Paths :
       /\ pre[p].kind = "file"
       /\ p[2] \notin mismatch
       /\ disk[p].kind # "file"

InDown ==
  pc \in {"d_copy", "d_perms", "d_verify", "d_remove", "d_symlink", "d_utime",
          "d_relist"}
InUp ==
  pc \in {"u_shim", "u_copy", "u_perms", "u_verify", "u_remove", "u_utime",
          "u_relist"}
AfterCopy ==
  pc \in {"d_perms", "d_verify", "d_remove", "d_symlink", "d_utime", "d_relist",
          "u_perms", "u_verify", "u_remove", "u_utime", "u_relist"}

\* the source path of the move in progress
MoveSrc == IF InDown THEN DownFile.path ELSE UpFile.path

\* source and destination are both there and hash differently
HashesDiffer ==
  /\ AfterCopy
  /\ disk[MoveSrc].kind = "file"
  /\ disk[mv.to_here].kind = "file"
  /\ XXHash64(MoveSrc) # XXHash64(mv.to_here)

\* C2: in a move whose source and destination hash differently after the
\* copy, no step deletes the source or the destination, and no step creates
\* a symlink for the file.
C2_MismatchKeepsBothFiles ==
  [][HashesDiffer =>
       /\ disk'[MoveSrc].kind = "file"
       /\ disk'[MoveSrc].data = disk[MoveSrc].data
       /\ disk'[mv.to_here].kind = "file"
       /\ \A q \in Paths :
            (q[2] = MoveSrc[2] /\ disk'[q].kind = "link") => disk'[q] = disk[q]]_vars

\* a promotion reached its last step with source and destination differing
C2_Witness == pc = "u_relist" /\ HashesDiffer

\* the three states the file of the move in progress may be in
PreMoveState == Column(MoveSrc[2]) = mv.before

DuplicateState ==
  /\ disk[MoveSrc] = mv.before[MoveSrc[1]]
  /\ disk[mv.to_here].kind = "file"
  /\ \A d \in Dirs \ {mv.to_here[1]} : disk[<<d, MoveSrc[2]>>] = mv.before[d]

CommittedState ==
  /\ disk[mv.to_here].kind = "file"
  /\ disk[mv.to_here].data = mv.before[MoveSrc[1]].data
  /\ InDown => disk[MoveSrc] = Link(mv.to_here)
  /\ InUp => disk[MoveSrc].kind = "none"
  /\ \A d \in Dirs \ {mv.to_here[1], MoveSrc[1]} :
       disk[<<d, MoveSrc[2]>>] = mv.before[d]

\* C3: between any two file system steps of a move, the file being moved
\* is in its state before the move, in its committed state after the move,
\* or duplicated (destination written, complete source still there).
C3_CrashLeavesAtWorstDuplicate ==
  (InDown \/ InUp) => (PreMoveState \/ DuplicateState \/ CommittedState)

\* a step deletes a regular file, or removes or replaces a symlink
Destructive ==
  \E p \in Paths :
    \/ disk[p].kind = "file" /\ disk'[p].kind # "file"
    \/ disk[p].kind = "link" /\ disk'[p] # disk[p]

\* C4: a step that deletes a file or removes or replaces a shim is taken
\* only in a move whose verification has succeeded.
C4_DestructiveOnlyAfterVerify == [][Destructive => mv.verified]_vars

\* where the chain of symlinks starting at p ends, after at most n links
RECURSIVE Resolve(_, _)
Resolve(p, n) ==
  IF disk[p].kind = "link" /\ n > 0 THEN Resolve(disk[p].target, n - 1) ELSE p

\* C5, for the files that were in a lower tier before the pass and were
\* not moved: after a pass, every such file has a symlink at the same key
\* in the top tier that resolves to it.
C5_ShimForEveryLowerFile ==
  pc = "done" =>
    \A i \in 2..NTiers, k \in Keys :
      (disk[<<Dir(i), k>>].kind = "file" /\ pre[<<Dir(i), k>>] = disk[<<Dir(i), k>>])
        => /\ disk[<<Dir(1), k>>].kind = "link"
           /\ Resolve(<<Dir(1), k>>, MaxTiers) = <<Dir(i), k>>

\* C6: after a pass without verification failure no file in a slower tier
\* ranks strictly above a file in a faster tier.
C6_PlacementFollowsOrder ==
  (pc = "done" /\ mismatch = {}) =>
    \A i \in 1..NTiers, j \in 1..NTiers, k \in Keys, l \in Keys :
      (i < j /\ disk[<<Dir(i), k>>].kind = "file" /\ disk[<<Dir(j), l>>].kind = "file")
        => ~Before(MkFile(<<Dir(j), l>>), MkFile(<<Dir(i), k>>))

\* every watermark the pass compares with is in 0..100, and no tier's
\* min_watermark is above its max_watermark
WatermarksInRange ==
  \A i \in 1..NTiers :
    /\ tiers[i].max_watermark \in 0..100
    /\ tiers[i].min_watermark \in 0..tiers[i].max_watermark

\* C7, for configurations with every watermark in range: the second of two
\* passes, with nothing disturbing either, copies nothing.
C7_SecondPassCopiesNothing ==
  (pass = 2 /\ faults = MaxFaults /\ WatermarksInRange) => copies = 0

\* the engine may demote the file
Demotable(i, k) ==
  /\ disk[<<Dir(i), k>>].kind = "file"
  /\ policy[k].pinned_to # Dir(i)

\* C8, for passes with every watermark in range, no statvfs failure and
\* no disturbed copy: after the pass every tier but the slowest is below
\* its watermark or holds no file the engine may demote, and a promotion
\* never brings the tier it copies into to or above that tier's watermark.
C8_WatermarkRespected ==
  (faults = MaxFaults /\ WatermarksInRange) =>
    /\ pc = "done" =>
         \A i \in 1..(NTiers - 1) :
           \/ GetFsUsage(Dir(i), 0, FALSE) < tiers[i].max_watermark
           \/ \A k \in Keys : ~Demotable(i, k)
    /\ pc = "u_perms" =>
         GetFsUsage(Dir(tptr - 1), 0, FALSE) < tiers[tptr - 1].max_watermark

\* C9: once statvfs has failed in a pass, the pass changes nothing on disk.
C9_NoMoveAfterStatvfsFailure == [][statFailed => disk' = disk]_vars

\* C10: a configuration that Config::load accepts has at least two tiers,
\* every dir a directory, and every max and min watermark in 0..100.
C10_AcceptedConfigIsValid ==
  pc \notin {"start", "exit"} =>
    /\ NTiers >= 2
    /\ \A i \in 1..NTiers :
         /\ IsDirectory(Dir(i))
         /\ tiers[i].max_watermark \in 0..100
         /\ tiers[i].min_watermark \in 0..100

\* uid, gid, mode, access time and modify time
Metadata(f) == <<f.owner, f.atime, f.mtime>>

\* no move is in progress
BetweenMoves == pc \in {"down", "up", "done", "aborted"}

C14_FailedFileLeftAlone ==
  [][/\ (pc \in {"d_relist", "u_relist"} /\ ~mv.verified /\ WatermarksInRange) =>
          \A i \in Dirs : \A j \in 1..Len(files'[i]) :
            files'[i][j].path # mv.to_here
     /\ (pc \in {"down", "up"} /\ pc' \in {"d_copy", "u_shim", "u_copy"}) =>
          mv'.to_here[2] \notin mismatch]_vars

\* no record of the list ranks before one in front of it
Sorted(s) == \A a, b \in 1..Len(s) : a < b => ~Before(s[b], s[a])

\* C15, for passes with every watermark in range, no statvfs failure and
\* no disturbed copy: after the crawl and after every tier_down and
\* tier_up, every tier's list is sorted by priority descending, then
\* access time descending.
C15_ListsStaySorted ==
  (pc \in {"down", "up", "done"} /\ faults = MaxFaults /\ WatermarksInRange)
    => \A i \in 1..NTiers : Sorted(files[i])

\* C16, for passes with every watermark in range, no statvfs failure and
\* no disturbed copy: no file is copied more than once in one pass.
C16_CopiedAtMostOnce ==
  (faults = MaxFaults /\ WatermarksInRange) => \A k \in Keys : copied[k] <= 1

\* C17, for passes with every watermark in range and no verification
\* failure of their own: a move that finds a regular file at its
\* destination changes nothing on disk, and the pass goes on with the loop
\* it is in.
C17_ExistingDestinationSkipped ==
  [][(/\ pc \in {"d_copy", "u_copy"}
      /\ disk[mv.to_here].kind = "file"
      /\ mismatch = {}
      /\ WatermarksInRange) =>
       (disk' = disk /\ pc' \in {"down", "up"})]_vars

\* a step of launch_crawlers
PassStep ==
  \/ Crawl
  \/ DownNext \/ DownSkipPinned \/ DownBegin
  \/ DownCopyThrows \/ DownCopy \/ DownPerms \/ DownVerify \/ DownRemove
  \/ DownSymlink \/ DownUtime \/ DownRelist
  \/ UpNext \/ UpSkipPinned \/ UpBegin
  \/ UpRemoveShim \/ UpCopyThrows \/ UpCopy \/ UpPerms \/ UpVerify
  \/ UpRemove \/ UpUtime \/ UpRelist

\* C18, for passes with every watermark in range and no statvfs failure:
\* a pass that has begun is at "Tiering complete" or has a step to take.
C18_PassReachesComplete ==
  (pc \notin {"start", "exit", "done"} /\ ~statFailed /\ WatermarksInRange)
    => ENABLED PassStep

\* ---- Tier::crawl on a directory tree -------------------------------------
\* names of files: every alternative of the pattern, and names near them
Names ==
  { <<"a">>,
    <<".", "a", ".", "s", "w", "p">>,
    <<".", ".", "s", "w", "p">>,
    <<".", "s", "w", "p">>,
    <<"a", ".", "s", "w", "p">>,
    <<".", "~", "l", "o", "c", "k", ".", "a", "#">>,
    <<".", "~", "l", "o", "c", "k", ".", "#">>,
    <<".", "~", "l", "o", "c", "k", ".", "a">>,
    <<"~", "$">>,
    <<"~", "$", "a">> }

SubNames == { <<"b">>, <<".", "b", ".", "s", "w", "p">>, <<"~", "$", "b">> }

\* inode 1 is the tier directory.  It holds a regular file (inode 2) named
\* n, an entry "l" (inode 3) that is a symlink to `to` (0: nothing, 2: the
\* file, 4: the directory) or a regular file (to = 3), and a directory "d"
\* (inode 4) that holds the entry m (inode 5), a regular file or a symlink
\* to the file of inode 2.
TreeOf(n, to, m, sub) ==
  [i \in 0..5 |->
     CASE i = 1 -> [kind |-> "dir", target |-> 0,
                    entries |-> << [name |-> n, ino |-> 2],
                                   [name |-> <<"l">>, ino |-> 3],
                                   [name |-> <<"d">>, ino |-> 4] >>]
       [] i = 2 -> [kind |-> "file", target |-> 0, entries |-> <<>>]
       [] i = 3 -> IF to = 3
                   THEN [kind |-> "file", target |-> 0, entries |-> <<>>]
                   ELSE [kind |-> "link", target |-> to, entries |-> <<>>]
       [] i = 4 -> [kind |-> "dir", target |-> 0,
                    entries |-> << [name |-> m, ino |-> 5] >>]
       [] i = 5 -> IF sub = "file"
                   THEN [kind |-> "file", target |-> 0, entries |-> <<>>]
                   ELSE [kind |-> "link", target |-> 2, entries |-> <<>>]
       [] OTHER -> [kind |-> "none", target |-> 0, entries |-> <<>>]]

Trees ==
  { TreeOf(n, to, m, sub) :
      n \in Names, to \in {0, 2, 3, 4}, m \in SubNames, sub \in {"file", "link"} }

CrawlInit ==
  /\ tree \in Trees
  /\ listing = <<>>
  /\ pc = "crawl_tree"
  /\ cfgFile = <<>>
  /\ disk = [p \in Paths |-> NoFile]
  /\ policy = [k \in Keys |-> [priority |-> 1, pinned_to |-> 0]]
  /\ tiers = <<>>
  /\ files = NoFiles
  /\ tptr = 0
  /\ mv = NoMove
  /\ faults = 0
  /\ pass = 1
  /\ pre = disk
  /\ mismatch = {}
  /\ copies = 0
  /\ statFailed = FALSE
  /\ copied = [k \in Keys |-> 0]

\* Tier::crawl(dir), lines 73-81, for the tier directory of tree
CrawlTree ==
  /\ pc = "crawl_tree"
  /\ listing' = CrawlDir(tree, 1)
  /\ pc' = "crawled"
  /\ UNCHANGED <<tree, copied, cfgFile, disk, policy, tiers, files, tptr, mv,
                 faults, pass, pre, mismatch, copies, statFailed>>

CrawlNext == CrawlTree

CrawlSpec == CrawlInit /\ [][CrawlNext]_vars

\* the inode of the entry called name in directory dir of tree
EntryIno(dir, name) ==
  LET es == tree[dir].entries
  IN es[CHOOSE j \in 1..Len(es) : es[j].name = name].ino

\* the path, taken from directory dir of tree, has a symlink as a component
RECURSIVE PathHasSymlink(_, _)
PathHasSymlink(dir, path) ==
  IF path = <<>> THEN FALSE
  ELSE \/ IsSymlink(tree, EntryIno(dir, Head(path)))
       \/ PathHasSymlink(Target(tree, EntryIno(dir, Head(path))), Tail(path))

\* C11: no record of a crawl has a path with a symlink in it, as the file
\* or as a directory on the way to it, and no two records are of the same
\* physical file.
C11_SymlinksNeitherEnrolledNorFollowed ==
  pc = "crawled" =>
    /\ \A j \in 1..Len(listing) : ~PathHasSymlink(1, listing[j].path)
    /\ \A i, j \in 1..Len(listing) : listing[i].ino = listing[j].ino => i = j

\* the three patterns as the specification words them: .*.swp, .~lock.*#
\* and ~$*
NamedInPatterns(name) ==
  \/ /\ StartsWith(name, <<".">>)
     /\ EndsWith(Tail(name), <<".", "s", "w", "p">>)
  \/ /\ StartsWith(name, <<".", "~", "l", "o", "c", "k", ".">>)
     /\ EndsWith(SubSeq(name, 8, Len(name)), <<"#">>)
  \/ StartsWith(name, <<"~", "$">>)

\* C12: of the regular files in the directories of the tree, those with a
\* name in one of the three patterns have no record after the crawl, and
\* every other one has a record.
C12_ExcludedNamesNotEnrolled ==
  pc = "crawled" =>
    \A d \in DOMAIN tree :
      tree[d].kind = "dir" =>
        \A e \in 1..Len(tree[d].entries) :
          LET ent == tree[d].entries[e]
          IN tree[ent.ino].kind = "file" =>
               (NamedInPatterns(ent.name)
                  <=> ~\E j \in 1..Len(listing) : listing[j].ino = ent.ino)

====
